---- MODULE Spec2Model ----
(***************************************************************************)
(* A model of wordpress-vite-plugin (src/src/index.ts): the configuration  *)
(* normalizer, the environment gate and the server configuration read from *)
(* the environment, the dev-server URL resolver, and the life cycle of the *)
(* hot file (plugin construction, the config / configResolved /            *)
(* configureServer hooks, the listening event, process termination).       *)
(*                                                                         *)
(* Strings the code only copies are TLA+ strings.  Path strings the code   *)
(* edits (trim, slash stripping, path.join) are sequences of tokens: "/"   *)
(* is a slash, " " a white-space character, any other token a run of       *)
(* ordinary characters.  An optional property is a set: {} when the        *)
(* property is undefined, {v} when it holds v.                             *)
(***************************************************************************)
EXTENDS Integers, Sequences, FiniteSets, TLC

VARIABLES
    call,               \* the arguments of a direct call of one of the module's functions
    ret,                \* what that call returned or threw
    pc,                 \* per plugin instance: how far vite has driven its hooks
    pluginConfig,       \* per plugin instance: the resolved plugin configuration
    resolvedConfig,     \* per plugin instance: the configuration kept by configResolved
    hookError,          \* per plugin instance: the error its config hook threw
    viteDevServerUrl,   \* per plugin instance: the URL set by the listening handler
    exitHandlersBound,  \* the module-level flag
    listeners,          \* the listeners of the process: exit (the hot file of each
                        \* clean closure, in order of registration) and the signals
    files,              \* the hot files on disk: path -> contents
    dirs,               \* the public directories on disk
    process,            \* "running", "exited" (by an exit event) or "killed"
    cleanThrew,         \* an exit listener let an error of fs.rmSync escape
    rmCalls             \* the number of fs.rmSync calls made

----------------------------------------------------------------------------
(* Bounds *)

\* the longest path string (in tokens) tried as a directory option
MaxPathLen == 3

\* the number of plugin instances (wordpress() calls) in the process
NumInstances == 2

----------------------------------------------------------------------------
(* Optional values and the ?? operator *)

None == {}

Some(v) == {v}

Get(o) == CHOOSE v \in o : TRUE

Coalesce(o, d) == IF o = None THEN d ELSE Get(o)

\* an optional property with values in S
Option(S) == {None} \cup {Some(v) : v \in S}

----------------------------------------------------------------------------
(* Path strings *)

Slash == "/"

Space == " "

Alphabet == {Slash, Space, "foo"}

Strs(n) == UNION {[1..k -> Alphabet] : k \in 0..n}

RECURSIVE TrimStart(_)
TrimStart(s) ==
    IF s # <<>> /\ Head(s) = Space THEN TrimStart(Tail(s)) ELSE s

RECURSIVE TrimEnd(_)
TrimEnd(s) ==
    IF s # <<>> /\ s[Len(s)] = Space THEN TrimEnd(SubSeq(s, 1, Len(s) - 1)) ELSE s

\* String.prototype.trim
trim(s) == TrimEnd(TrimStart(s))

\* .replace(/^\/+/, "")
RECURSIVE stripLeadingSlashes(_)
stripLeadingSlashes(s) ==
    IF s # <<>> /\ Head(s) = Slash THEN stripLeadingSlashes(Tail(s)) ELSE s

\* .replace(/\/+$/, "")
RECURSIVE stripTrailingSlashes(_)
stripTrailingSlashes(s) ==
    IF s # <<>> /\ s[Len(s)] = Slash
    THEN stripTrailingSlashes(SubSeq(s, 1, Len(s) - 1))
    ELSE s

\* path.normalize on a path without "." or ".." segments: runs of slashes
\* become one slash; a leading and a trailing slash are kept
RECURSIVE collapseSlashes(_)
collapseSlashes(s) ==
    IF Len(s) < 2 THEN s
    ELSE IF s[1] = Slash /\ s[2] = Slash THEN collapseSlashes(Tail(s))
    ELSE <<Head(s)>> \o collapseSlashes(Tail(s))

\* path.join(a, name) for a non-empty name without slashes
join(a, name) ==
    IF a = <<>> THEN <<name>> ELSE collapseSlashes(a \o <<Slash, name>>)

RECURSIVE joinSegments(_)
joinSegments(segs) ==
    IF Len(segs) <= 1 THEN segs
    ELSE <<Head(segs), Slash>> \o joinSegments(Tail(segs))

\* path.resolve(`${process.cwd()}/../../uploads/scw-vite-hmr/${namespace}`) on a
\* POSIX system; cwd is the sequence of the working directory's segments
defaultPublic(cwd, namespace) ==
    LET up == SubSeq(cwd, 1, IF Len(cwd) > 2 THEN Len(cwd) - 2 ELSE 0)
    IN  <<Slash>> \o joinSegments(up \o <<"uploads", "scw-vite-hmr", namespace>>)

startsWithSlash(s) == s # <<>> /\ Head(s) = Slash

endsWithSlash(s) == s # <<>> /\ s[Len(s)] = Slash

hasWhitespace(s) == \E k \in 1..Len(s) : s[k] = Space

----------------------------------------------------------------------------
(* The refresh option: boolean | string | string[] | RefreshConfig[] *)

refreshPaths == <<"resources/views/**">>

RefreshBool(b) == [t |-> "boolean", b |-> b, strs |-> <<>>, specs |-> <<>>]

RefreshSpecs(specs) == [t |-> "specs", b |-> FALSE, strs |-> <<>>, specs |-> specs]

\* a string
RefreshString(str) == [t |-> "string", b |-> FALSE, strs |-> <<str>>, specs |-> <<>>]

\* an array with a string in it
RefreshStrings(strs) == [t |-> "strings", b |-> FALSE, strs |-> strs, specs |-> <<>>]

\* one RefreshConfig, not in an array
RefreshSpec(spec) == [t |-> "spec", b |-> FALSE, strs |-> <<>>, specs |-> <<spec>>]

\* fullReload(c.paths, c.config) with its __wordpress_plugin_config property
fullReload(c) ==
    [name |-> "vite-plugin-full-reload", paths |-> c.paths,
     __wordpress_plugin_config |-> c]

\* a variant of reloadSpecs that makes one spec of every string of a list
reloadSpecs_specPerString(refresh) ==
    CASE refresh.t = "boolean" -> <<>>
      [] refresh.t = "string"  -> <<[paths |-> refresh.strs]>>
      [] refresh.t = "spec"    -> refresh.specs
      [] refresh.t = "strings" ->
            [k \in 1..Len(refresh.strs) |-> [paths |-> <<refresh.strs[k]>>]]
      [] OTHER                 -> refresh.specs

\* the RefreshConfig[] that resolveFullReloadConfig brings the resolved
\* refresh option to, before it makes the plugins
reloadSpecs(refresh) ==
    CASE refresh.t = "boolean" -> <<>>
      [] refresh.t = "string"  -> <<[paths |-> refresh.strs]>>
      [] refresh.t = "spec"    -> refresh.specs
      [] refresh.t = "strings" -> <<[paths |-> refresh.strs]>>
      [] OTHER                 -> refresh.specs

\* resolveFullReloadConfig({ refresh }): one plugin for every spec
resolveFullReloadConfig(refresh) ==
    [k \in 1..Len(reloadSpecs(refresh)) |-> fullReload(reloadSpecs(refresh)[k])]

----------------------------------------------------------------------------
(* resolvePluginConfig *)

\* typeof config
typeof(config) ==
    CASE config.kind = "undefined" -> "undefined"
      [] config.kind = "string"    -> "string"
      [] OTHER                     -> "object"     \* null, arrays, objects

isArray(config) == config.kind = "array"

Throw(message) == [ok |-> FALSE, error |-> message, value |-> None]

Return(value) == [ok |-> TRUE, error |-> "", value |-> Some(value)]

NoError == ""

\* a variant of configError that forgets the check of "namespace"
configError_noNamespaceCheck(config) ==
    IF typeof(config) = "undefined"
    THEN "wordpress-vite-plugin: missing configuration."
    ELSE IF typeof(config) # "object" \/ isArray(config)
    THEN "wordpress-vite-plugin: configuration must be an object."
    ELSE IF config.kind = "null"
    THEN "TypeError: Cannot read properties of null (reading 'namespace')"
    ELSE IF config.input = None
    THEN "wordpress-vite-plugin: missing configuration for \"input\"."
    ELSE NoError

\* the checks of the value's shape and of its required properties
configError(config) ==
    IF typeof(config) = "undefined"
    THEN "wordpress-vite-plugin: missing configuration."
    ELSE IF typeof(config) # "object" \/ isArray(config)
    THEN "wordpress-vite-plugin: configuration must be an object."
    ELSE IF config.kind = "null"
    THEN "TypeError: Cannot read properties of null (reading 'namespace')"
    ELSE IF config.namespace = None
    THEN "wordpress-vite-plugin: missing configuration for \"namespace\""
    ELSE IF config.input = None
    THEN "wordpress-vite-plugin: missing configuration for \"input\"."
    ELSE NoError

\* a variant of trimPublicDirectory that also strips the trailing slashes
trimPublicDirectory_bothEnds(s) == stripTrailingSlashes(stripLeadingSlashes(trim(s)))

\* a variant of trimPublicDirectory that strips one leading slash only
trimPublicDirectory_oneSlash(s) ==
    LET t == trim(s) IN IF startsWithSlash(t) THEN Tail(t) ELSE t

\* config.publicDirectory.trim().replace(/^\/+/, "")
trimPublicDirectory(s) == stripLeadingSlashes(trim(s))

\* a variant of trimDirectory that leaves the trailing slashes
trimDirectory_leadingOnly(s) == stripLeadingSlashes(trim(s))

\* .trim().replace(/^\/+/, "").replace(/\/+$/, ""), for buildDirectory and
\* ssrOutputDirectory
trimDirectory(s) == stripTrailingSlashes(stripLeadingSlashes(trim(s)))

resolvePluginConfig(config, cwd) ==
    IF configError(config) # NoError THEN Throw(configError(config))
    ELSE
    LET \* line 385 compares with the string "undefined", not with typeof
        ssr == IF config.ssr = Some("undefined") THEN config.input ELSE config.ssr
        publicDirectoryOption ==
            IF config.publicDirectory = None THEN None
            ELSE Some(trimPublicDirectory(Get(config.publicDirectory)))
        buildDirectoryOption ==
            IF config.buildDirectory = None THEN None
            ELSE Some(trimDirectory(Get(config.buildDirectory)))
        ssrOutputDirectoryOption ==
            IF config.ssrOutputDirectory = None THEN None
            ELSE Some(trimDirectory(Get(config.ssrOutputDirectory)))
        refresh == IF config.refresh = Some(RefreshBool(TRUE))
                   THEN Some(RefreshSpecs(<<[paths |-> refreshPaths]>>))
                   ELSE config.refresh
        publicDirectory ==
            Coalesce(publicDirectoryOption,
                     defaultPublic(cwd, Coalesce(config.namespace, "undefined")))
    IN  IF publicDirectoryOption = Some(<<>>)
        THEN Throw("wordpress-vite-plugin: publicDirectory must be a subdirectory. E.g. 'public'.")
        ELSE IF buildDirectoryOption = Some(<<>>)
        THEN Throw("wordpress-vite-plugin: buildDirectory must be a subdirectory. E.g. 'build'.")
        ELSE Return([
            namespace |-> Coalesce(config.namespace, "undefined"),
            input |-> Coalesce(config.input, "undefined"),
            publicDirectory |-> publicDirectory,
            emptyOutDir |-> Coalesce(config.emptyOutDir, TRUE),
            buildDirectory |-> Coalesce(buildDirectoryOption, <<"build">>),
            ssr |-> Coalesce(ssr, Coalesce(config.input, "undefined")),
            ssrOutputDirectory |->
                Coalesce(ssrOutputDirectoryOption, join(publicDirectory, "ssr")),
            ssrExternal |-> Coalesce(config.ssrExternal, FALSE),
            refresh |-> Coalesce(refresh, RefreshBool(FALSE)),
            hotFile |-> Coalesce(config.hotFile, join(publicDirectory, "hot")),
            transformOnServe |-> Coalesce(config.transformOnServe, "(code) => code")])

\* wordpress(config): the entry function.  directories is the set of directories
\* on disk; fsOps lists the filesystem calls the function made, in order;
\* reloadPlugins are the plugins returned after the wordpress plugin and the
\* globals plugin
wordpress(config, cwd, directories) ==
    LET resolved == resolvePluginConfig(config, cwd) IN
    IF ~resolved.ok
    THEN [ok |-> FALSE, error |-> resolved.error, pluginConfig |-> None,
          fsOps |-> <<>>, dirs |-> directories, reloadPlugins |-> <<>>]
    ELSE LET publicDirectory == Get(resolved.value).publicDirectory
             reloadPlugins == resolveFullReloadConfig(Get(resolved.value).refresh)
         IN
         IF publicDirectory \in directories
         THEN [ok |-> TRUE, error |-> "", pluginConfig |-> resolved.value,
               fsOps |-> <<"existsSync">>, dirs |-> directories,
               reloadPlugins |-> reloadPlugins]
         ELSE [ok |-> TRUE, error |-> "", pluginConfig |-> resolved.value,
               fsOps |-> <<"existsSync", "mkdirSync">>,
               dirs |-> directories \cup {publicDirectory},
               reloadPlugins |-> reloadPlugins]

----------------------------------------------------------------------------
(* The environment gate and the server configuration of the environment *)

GateError ==
    "You should not run the Vite HMR server in CI environments. You should build your assets for production instead. To disable this ENV check you may set WORDPRESS_BYPASS_ENV_CHECK=1"

\* a variant of the gate that tests env.CI for truth, not for presence
ensureCommandShouldRunInEnvironment_truthyCI(command, env) ==
    IF command = "build" \/ env.WORDPRESS_BYPASS_ENV_CHECK = Some("1") THEN NoError
    ELSE IF env.CI # None /\ env.CI # Some("") THEN GateError
    ELSE NoError

\* the error the gate throws, NoError when it returns
ensureCommandShouldRunInEnvironment(command, env) ==
    IF command = "build" \/ env.WORDPRESS_BYPASS_ENV_CHECK = Some("1") THEN NoError
    ELSE IF env.CI # None THEN GateError
    ELSE NoError

\* !value of an environment variable: undefined or the empty string
falsy(o) == o = None \/ o = Some("")

\* new URL(APP_URL).host, None where the constructor throws (the catch of
\* resolveHostFromEnv returns undefined)
resolveHostFromEnv(env) ==
    CASE env.APP_URL = Some("https://site.test")      -> Some("site.test")
      [] env.APP_URL = Some("https://site.test:8443") -> Some("site.test:8443")
      [] env.APP_URL = Some("file:///srv/site")       -> Some("")
      [] OTHER                                        -> None

\* fs.existsSync of an environment variable's path; onDisk is the set of the
\* files on disk
existsSync(o, onDisk) == o # None /\ Get(o) \in onDisk

\* resolveEnvironmentServerConfig(env): the error thrown (NoError when it
\* returns), the value returned (None for undefined) and the filesystem calls
resolveEnvironmentServerConfig(env, onDisk) ==
    IF falsy(env.VITE_DEV_SERVER_KEY) /\ falsy(env.VITE_DEV_SERVER_CERT)
    THEN [error |-> NoError, value |-> None, fsOps |-> <<>>]
    ELSE IF ~existsSync(env.VITE_DEV_SERVER_KEY, onDisk)
    THEN [error |-> "Unable to find the certificate files specified in your environment.",
          value |-> None, fsOps |-> <<"existsSync">>]
    ELSE IF ~existsSync(env.VITE_DEV_SERVER_CERT, onDisk)
    THEN [error |-> "Unable to find the certificate files specified in your environment.",
          value |-> None, fsOps |-> <<"existsSync", "existsSync">>]
    ELSE IF falsy(resolveHostFromEnv(env))
    THEN [error |-> "Unable to determine the host from the environment's APP_URL",
          value |-> None, fsOps |-> <<"existsSync", "existsSync">>]
    ELSE [error |-> NoError,
          value |-> Some([hmr |-> [host |-> Get(resolveHostFromEnv(env))],
                          host |-> Get(resolveHostFromEnv(env)),
                          https |-> [key |-> Get(env.VITE_DEV_SERVER_KEY),
                                     cert |-> Get(env.VITE_DEV_SERVER_CERT)]]),
          fsOps |-> <<"existsSync", "existsSync", "readFileSync", "readFileSync">>]

\* the plugin's config hook: the error thrown (NoError when it returns its
\* overlay), the calls it made in order, the filesystem calls among them, and
\* the server configuration of the environment that the overlay merges
configHook(command, env, onDisk) ==
    LET serverConfig == IF command = "serve"
                        THEN resolveEnvironmentServerConfig(env, onDisk)
                        ELSE [error |-> NoError, value |-> None, fsOps |-> <<>>]
        first == <<"loadEnv">> \o
                 (IF command = "serve" THEN <<"resolveEnvironmentServerConfig">> ELSE <<>>)
        gate == ensureCommandShouldRunInEnvironment(command, env)
    IN  IF serverConfig.error # NoError
        THEN [error |-> serverConfig.error, steps |-> first,
              fsOps |-> serverConfig.fsOps, serverConfig |-> None]
        ELSE IF gate # NoError
        THEN [error |-> gate,
              steps |-> first \o <<"ensureCommandShouldRunInEnvironment">>,
              fsOps |-> serverConfig.fsOps, serverConfig |-> None]
        ELSE [error |-> NoError,
              steps |-> first \o <<"ensureCommandShouldRunInEnvironment", "return">>,
              fsOps |-> serverConfig.fsOps, serverConfig |-> serverConfig.value]

Commands == {"build", "serve"}

KeyPath == "/certs/site.key"

CertPath == "/certs/site.crt"

Envs ==
    [CI : Option({"", "true"}),
     WORDPRESS_BYPASS_ENV_CHECK : Option({"", "1", "true"}),
     VITE_DEV_SERVER_KEY : Option({KeyPath}),
     VITE_DEV_SERVER_CERT : Option({CertPath}),
     APP_URL : Option({"site.test", "https://site.test", "file:///srv/site"})]

----------------------------------------------------------------------------
(* The dev-server URL *)

\* the family of an AddressInfo: a string, or a number in node >= 18.0 < 18.4
FamilyNumber4 == "number 4"

FamilyNumber6 == "number 6"

\* a variant of isIpv6 without the numeric family of node >= 18.0 < 18.4
isIpv6_stringOnly(address) == address.family = "IPv6"

isIpv6(address) == address.family = "IPv6" \/ address.family = FamilyNumber6

\* a variant of resolveDevServerUrlParts that reads hmr.port where the code
\* reads hmr.clientPort
resolveDevServerUrlParts_hmrPort(address, config) ==
    LET hmr == config.server.hmr
        configHmrProtocol == IF hmr.kind = "object" THEN hmr.protocol ELSE None
        clientProtocol ==
            IF ~falsy(configHmrProtocol)
            THEN Some(IF configHmrProtocol = Some("wss") THEN "https" ELSE "http")
            ELSE None
        serverProtocol == IF config.server.https \in {"true", "options"}
                          THEN "https" ELSE "http"
        configHmrHost == IF hmr.kind = "object" THEN hmr.host ELSE None
        configHost == IF config.server.host.kind = "string"
                      THEN Some(config.server.host.value) ELSE None
        serverAddress == IF isIpv6(address) THEN "[" \o address.address \o "]"
                         ELSE address.address
        configHmrClientPort == IF hmr.kind = "object" THEN hmr.port ELSE None
    IN  [protocol |-> Coalesce(clientProtocol, serverProtocol),
         host |-> Coalesce(configHmrHost, Coalesce(configHost, serverAddress)),
         port |-> Coalesce(configHmrClientPort, address.port)]

\* the protocol, host and port of resolveDevServerUrl
resolveDevServerUrlParts(address, config) ==
    LET hmr == config.server.hmr
        configHmrProtocol == IF hmr.kind = "object" THEN hmr.protocol ELSE None
        clientProtocol ==
            IF ~falsy(configHmrProtocol)
            THEN Some(IF configHmrProtocol = Some("wss") THEN "https" ELSE "http")
            ELSE None
        serverProtocol == IF config.server.https \in {"true", "options"}
                          THEN "https" ELSE "http"
        configHmrHost == IF hmr.kind = "object" THEN hmr.host ELSE None
        configHost == IF config.server.host.kind = "string"
                      THEN Some(config.server.host.value) ELSE None
        serverAddress == IF isIpv6(address) THEN "[" \o address.address \o "]"
                         ELSE address.address
        configHmrClientPort == IF hmr.kind = "object" THEN hmr.clientPort ELSE None
    IN  [protocol |-> Coalesce(clientProtocol, serverProtocol),
         host |-> Coalesce(configHmrHost, Coalesce(configHost, serverAddress)),
         port |-> Coalesce(configHmrClientPort, address.port)]

\* `${protocol}://${host}:${port}`
formatUrl(parts) == parts.protocol \o "://" \o parts.host \o ":" \o ToString(parts.port)

resolveDevServerUrl(address, config) == formatUrl(resolveDevServerUrlParts(address, config))

Addresses ==
    {[address |-> a[1], family |-> a[2], port |-> p] :
        a \in {<<"127.0.0.1", "IPv4">>, <<"127.0.0.1", FamilyNumber4>>,
               <<"::1", "IPv6">>, <<"::1", FamilyNumber6>>},
        p \in {5173, 5174}}

HmrObject(protocol, host, port, clientPort) ==
    [kind |-> "object", protocol |-> protocol, host |-> host, port |-> port,
     clientPort |-> clientPort]

\* server.hmr of the resolved configuration: undefined, a boolean or an object
HmrOther(kind) ==
    [kind |-> kind, protocol |-> None, host |-> None, port |-> None, clientPort |-> None]

Hmrs ==
    {HmrOther(k) : k \in {"undefined", "boolean"}}
    \cup {HmrObject(pr, h, p, cp) :
            pr \in Option({"", "ws", "wss"}), h \in Option({"example.test"}),
            p \in Option({443}), cp \in Option({443, 8443})}

\* server.host: undefined, a boolean (listen on all addresses) or a string
ServerHosts ==
    {[kind |-> "undefined", value |-> ""], [kind |-> "boolean", value |-> ""],
     [kind |-> "string", value |-> "0.0.0.0"], [kind |-> "string", value |-> "dev.test"]}

\* server.https: undefined, a boolean (vite < 5) or the options of the server
ServerConfigs ==
    {[server |-> [hmr |-> h, https |-> t, host |-> sh]] :
        h \in Hmrs, t \in {"undefined", "false", "true", "options"}, sh \in ServerHosts}

----------------------------------------------------------------------------
(* The transform hook *)

\* the origin the config hook hands to vite as server.origin
Placeholder == "http://__wordpress_vite_placeholder__.test"

\* source code is a sequence of pieces: the placeholder origin, or text
\* without it, such as the same origin under https
SecurePlaceholder == "https://__wordpress_vite_placeholder__.test"

\* `${url}` of a URL that may be undefined
urlText(url) == Coalesce(url, "undefined")

\* code.replace(/http:\/\/__wordpress_vite_placeholder__\.test/g, url)
replacePlaceholder(code, url) ==
    [k \in 1..Len(code) |-> IF code[k] = Placeholder THEN urlText(url) ELSE code[k]]

\* pluginConfig.transformOnServe(code, url): the default returns the code;
\* the callback tried puts a comment with the URL in front of it
transformOnServe(callback, code, url) ==
    IF callback = "(code) => code" THEN code
    ELSE <<"/* served by " \o urlText(url) \o " */">> \o code

\* the transform hook: the code returned, None for undefined
transform(command, callback, code, url) ==
    IF command = "serve"
    THEN Some(transformOnServe(callback, replacePlaceholder(code, url), url))
    ELSE None

\* the source codes handed to the hook
TransformCodes ==
    {<<"import './app.css'">>,
     <<"url(", Placeholder, "/a.png)">>,
     <<Placeholder, Placeholder>>,
     <<"fetch('", SecurePlaceholder, "')">>}

----------------------------------------------------------------------------
(* Configuration values tried *)

\* an object: namespace, input, publicDirectory, buildDirectory,
\* ssrOutputDirectory, hotFile, ssr, refresh, emptyOutDir, transformOnServe
ObjectConfig(n, i, pd, bd, sd, hf, ssr, rf, eo, tf) ==
    [kind |-> "object", namespace |-> n, input |-> i, publicDirectory |-> pd,
     buildDirectory |-> bd, ssrOutputDirectory |-> sd, hotFile |-> hf, ssr |-> ssr,
     ssrExternal |-> None, refresh |-> rf, emptyOutDir |-> eo,
     transformOnServe |-> tf]

\* a value that is no object with properties: undefined, null, an array, a string
OtherConfig(kind) ==
    [kind |-> kind, namespace |-> None, input |-> None, publicDirectory |-> None,
     buildDirectory |-> None, ssrOutputDirectory |-> None, hotFile |-> None,
     ssr |-> None, ssrExternal |-> None, refresh |-> None, emptyOutDir |-> None,
     transformOnServe |-> None]

AnyPath == Option(Strs(MaxPathLen))

FewPaths == {None, Some(<<"foo">>), Some(<<Slash, "foo", Slash>>)}

Namespaces == Option({"my-theme"})

Inputs == Option({"main.js"})

\* every path option in turn runs over all the strings, next to a few values
\* of the other two
PathConfigs ==
    {ObjectConfig(Some("my-theme"), Some("main.js"), p, b, s, None, None, None, None, None) :
        p \in AnyPath, b \in FewPaths, s \in FewPaths}
    \cup
    {ObjectConfig(Some("my-theme"), Some("main.js"), p, b, s, None, None, None, None, None) :
        p \in FewPaths, b \in AnyPath, s \in FewPaths}
    \cup
    {ObjectConfig(Some("my-theme"), Some("main.js"), p, b, s, None, None, None, None, None) :
        p \in FewPaths, b \in FewPaths, s \in AnyPath}

RequiredConfigs ==
    {ObjectConfig(n, i, p, b, None, None, None, None, None, None) :
        n \in Namespaces, i \in Inputs, p \in FewPaths \cup {Some(<<Slash>>)},
        b \in FewPaths \cup {Some(<<Slash>>)}}

OptionConfigs ==
    {ObjectConfig(Some("my-theme"), Some("main.js"), p, None, None, h, s, r, e, t) :
        p \in FewPaths, h \in Option({<<"foo", Slash, "hot">>}),
        s \in Option({"ssr.js", "undefined"}),
        r \in Option({RefreshBool(TRUE), RefreshBool(FALSE)}),
        e \in Option({FALSE}), t \in Option({"userTransform"})}

\* the values of the refresh option
RefreshValues ==
    {RefreshBool(TRUE), RefreshBool(FALSE), RefreshString("a/**"),
     RefreshStrings(<<"a/**">>), RefreshStrings(<<"a/**", "b/**">>),
     RefreshSpec([paths |-> <<"a/**">>]), RefreshSpecs(<<>>),
     RefreshSpecs(<<[paths |-> <<"a/**">>], [paths |-> <<"b/**">>]>>)}

RefreshConfigs ==
    {ObjectConfig(Some("my-theme"), Some("main.js"), p, None, None, None, None, r, None, None) :
        p \in FewPaths, r \in Option(RefreshValues)}

ShapeConfigs == {OtherConfig(k) : k \in {"undefined", "null", "array", "string"}}

NormConfigs ==
    PathConfigs \cup RequiredConfigs \cup OptionConfigs \cup RefreshConfigs
    \cup ShapeConfigs

Cwds == {<<"srv", "www", "wp-content", "themes", "my-theme">>, <<"app">>}

\* a resolved configuration handed back as a user configuration
asConfig(r) ==
    [kind |-> "object", namespace |-> Some(r.namespace), input |-> Some(r.input),
     publicDirectory |-> Some(r.publicDirectory),
     buildDirectory |-> Some(r.buildDirectory),
     ssrOutputDirectory |-> Some(r.ssrOutputDirectory), hotFile |-> Some(r.hotFile),
     ssr |-> Some(r.ssr), ssrExternal |-> Some(r.ssrExternal),
     refresh |-> Some(r.refresh), emptyOutDir |-> Some(r.emptyOutDir),
     transformOnServe |-> Some(r.transformOnServe)]

----------------------------------------------------------------------------
(* Direct calls of the functions *)

NoCall == [fn |-> "none"]

NoRet == [fn |-> "none"]

----------------------------------------------------------------------------
(* The life cycle of the plugin instances of one process *)

Instances == 1..NumInstances

lifeVars == <<pc, pluginConfig, resolvedConfig, hookError, viteDevServerUrl,
              exitHandlersBound, listeners, files, dirs, process, cleanThrew, rmCalls>>

callVars == <<call, ret>>

LifeInit ==
    /\ pc = [i \in Instances |-> "unborn"]
    /\ pluginConfig = [i \in Instances |-> None]
    /\ resolvedConfig = [i \in Instances |-> None]
    /\ hookError = [i \in Instances |-> NoError]
    /\ viteDevServerUrl = [i \in Instances |-> None]
    /\ exitHandlersBound = FALSE
    /\ listeners = [exit |-> <<>>, SIGINT |-> 0, SIGTERM |-> 0, SIGHUP |-> 0]
    /\ files = <<>>
    /\ dirs = {}
    /\ process = "running"
    /\ cleanThrew = FALSE
    /\ rmCalls = 0

\* the user configurations of the instances: two themes, each with its own
\* public directory and so its own hot file, and one without input
LifeConfigs ==
    {ObjectConfig(Some("my-theme"), Some("main.js"), Some(<<"foo">>), None, None, None,
                  None, None, None, None),
     ObjectConfig(Some("my-plugin"), Some("main.js"), Some(<<"foo">>), None, None,
                  Some(<<"foo", Slash, "plugin.hot">>), None, None, None,
                  Some("userTransform")),
     ObjectConfig(Some("my-theme"), None, None, None, None, None, None, None, None, None)}

LifeCwd == <<"srv", "www", "wp-content", "themes", "my-theme">>

LifeEnvs ==
    {e \in Envs :
        /\ e.CI \in {None, Some("true")}
        /\ e.WORDPRESS_BYPASS_ENV_CHECK \in {None, Some("1")}
        /\ e.VITE_DEV_SERVER_KEY = e.VITE_DEV_SERVER_CERT
        /\ e.APP_URL = Some("https://site.test")}

LifeAddresses == {a \in Addresses : a.port = 5173 /\ a.family \in {"IPv4", "IPv6"}}

LifeServerConfigs ==
    {c \in ServerConfigs :
        /\ c.server.hmr \in {HmrOther("undefined"),
                             HmrObject(Some("wss"), Some("example.test"), None, Some(443))}
        /\ c.server.https = "undefined"
        /\ c.server.host.kind = "undefined"}

\* fs.writeFileSync(path, data)
writeFileSync(fs, path, data) ==
    [p \in DOMAIN fs \cup {path} |-> IF p = path THEN data ELSE fs[p]]

\* the file system after fs.rmSync(path) removed the file
removed(fs, path) == [p \in DOMAIN fs \ {path} |-> fs[p]]

\* what fs.rmSync can do with a file that existsSync has just seen
RmOutcomes == {"removed", "EPERM", "ENOENT"}

\* the clean closure of configureServer, bound to the hot file of the
\* instance that registered it: rmSync removes the file, or throws because
\* it may not (EPERM) or because the file vanished after existsSync (ENOENT)
clean(hotFile, fs, outcome) ==
    IF hotFile \notin DOMAIN fs THEN [files |-> fs, threw |-> FALSE, rmCalls |-> 0]
    ELSE IF outcome = "EPERM" THEN [files |-> fs, threw |-> TRUE, rmCalls |-> 1]
    ELSE [files |-> removed(fs, hotFile), threw |-> outcome = "ENOENT", rmCalls |-> 1]

\* process.emit("exit"): the listeners run in the order of their
\* registration; an error thrown by one ends the emit
RECURSIVE emitExit(_, _, _)
emitExit(exitListeners, fs, outcome) ==
    IF exitListeners = <<>> THEN [files |-> fs, threw |-> FALSE, rmCalls |-> 0]
    ELSE LET first == clean(Head(exitListeners), fs, outcome) IN
         IF first.threw THEN first
         ELSE LET rest == emitExit(Tail(exitListeners), first.files, outcome)
              IN  [files |-> rest.files, threw |-> rest.threw,
                   rmCalls |-> first.rmCalls + rest.rmCalls]

\* wordpress(config) is called for instance i
Wordpress(i) ==
    /\ process = "running" /\ pc[i] = "unborn"
    /\ \E c \in LifeConfigs :
        LET out == wordpress(c, LifeCwd, dirs) IN
        /\ pc' = [pc EXCEPT ![i] = IF out.ok THEN "constructed" ELSE "rejected"]
        /\ pluginConfig' = [pluginConfig EXCEPT ![i] = out.pluginConfig]
        /\ dirs' = out.dirs
    /\ UNCHANGED <<resolvedConfig, hookError, viteDevServerUrl, exitHandlersBound,
                   listeners, files, process, cleanThrew, rmCalls, callVars>>

\* vite calls the config hook of instance i; a throw ends vite's start
Config(i) ==
    /\ process = "running" /\ pc[i] = "constructed"
    /\ \E command \in Commands, env \in LifeEnvs, onDisk \in {{}, {KeyPath, CertPath}} :
        LET out == configHook(command, env, onDisk) IN
        /\ hookError' = [hookError EXCEPT ![i] = out.error]
        /\ pc' = [pc EXCEPT ![i] = IF out.error = NoError THEN command ELSE "aborted"]
    /\ UNCHANGED <<pluginConfig, resolvedConfig, viteDevServerUrl, exitHandlersBound,
                   listeners, files, dirs, process, cleanThrew, rmCalls, callVars>>

\* vite calls configResolved with the merged configuration
ConfigResolved(i) ==
    /\ process = "running" /\ pc[i] \in Commands
    /\ resolvedConfig[i] = None
    /\ resolvedConfig' = [resolvedConfig EXCEPT ![i] = Some([command |-> pc[i]])]
    /\ UNCHANGED <<pc, pluginConfig, hookError, viteDevServerUrl, exitHandlersBound,
                   listeners, files, dirs, process, cleanThrew, rmCalls, callVars>>

\* a variant of bindExitHandlers without the guard: every configureServer binds
bindExitHandlers_always(bound, current, hotFile) ==
    [exit |-> Append(current.exit, hotFile), SIGINT |-> current.SIGINT + 1,
     SIGTERM |-> current.SIGTERM + 1, SIGHUP |-> current.SIGHUP + 1]

\* if (!exitHandlersBound) { process.on("exit", clean) ... }: the listeners of
\* the process after configureServer of an instance with this hot file
bindExitHandlers(bound, current, hotFile) ==
    IF ~bound
    THEN [exit |-> Append(current.exit, hotFile), SIGINT |-> current.SIGINT + 1,
          SIGTERM |-> current.SIGTERM + 1, SIGHUP |-> current.SIGHUP + 1]
    ELSE current

\* the dev server calls configureServer of instance i: the listening
\* handler is registered, and the handlers of the process if none are yet
ConfigureServer(i) ==
    /\ process = "running" /\ pc[i] = "serve"
    /\ resolvedConfig[i] # None
    /\ pc' = [pc EXCEPT ![i] = "configured"]
    /\ listeners' = bindExitHandlers(exitHandlersBound, listeners,
                                     Get(pluginConfig[i]).hotFile)
    /\ exitHandlersBound' = TRUE
    /\ UNCHANGED <<pluginConfig, resolvedConfig, hookError, viteDevServerUrl, files,
                   dirs, process, cleanThrew, rmCalls, callVars>>

\* the http server of instance i emits "listening" (once)
Listening(i) ==
    /\ process = "running" /\ pc[i] = "configured"
    /\ \E address \in LifeAddresses, config \in LifeServerConfigs :
        LET url == resolveDevServerUrl(address, config) IN
        /\ viteDevServerUrl' = [viteDevServerUrl EXCEPT ![i] = Some(url)]
        /\ files' = writeFileSync(files, Get(pluginConfig[i]).hotFile, url)
    /\ pc' = [pc EXCEPT ![i] = "listening"]
    /\ UNCHANGED <<pluginConfig, resolvedConfig, hookError, exitHandlersBound,
                   listeners, dirs, process, cleanThrew, rmCalls, callVars>>

\* vite hands a module's code to the transform hook of instance i: in a
\* build, and in a dev server from its creation on (a request, a warm-up or
\* server.transformRequest; a server in middleware mode has no http server
\* and never emits "listening")
Transform(i) ==
    /\ process = "running" /\ pc[i] \in {"build", "configured", "listening"}
    /\ resolvedConfig[i] # None
    /\ \E code \in TransformCodes :
        /\ call' = [fn |-> "transform", instance |-> i, code |-> code]
        /\ ret' = [fn |-> "transform", url |-> viteDevServerUrl[i],
                   out |-> transform(Get(resolvedConfig[i]).command,
                                     Get(pluginConfig[i]).transformOnServe,
                                     code, viteDevServerUrl[i])]
    /\ UNCHANGED lifeVars

Signals == {"SIGINT", "SIGTERM", "SIGHUP"}

\* the process ends: its event loop drains or process.exit() is called
Exit ==
    /\ process = "running"
    /\ \E outcome \in RmOutcomes :
        LET out == emitExit(listeners.exit, files, outcome) IN
        /\ files' = out.files
        /\ cleanThrew' = out.threw
        /\ rmCalls' = rmCalls + out.rmCalls
    /\ process' = "exited"
    /\ UNCHANGED <<pc, pluginConfig, resolvedConfig, hookError, viteDevServerUrl,
                   exitHandlersBound, listeners, dirs, callVars>>

\* the process receives a signal: with the handler of configureServer bound,
\* process.exit runs and emits "exit"; without one, the signal ends the
\* process and no exit event is emitted
Signal(sig) ==
    /\ process = "running"
    /\ IF listeners[sig] > 0
       THEN \E outcome \in RmOutcomes :
               LET out == emitExit(listeners.exit, files, outcome) IN
               /\ files' = out.files
               /\ cleanThrew' = out.threw
               /\ rmCalls' = rmCalls + out.rmCalls
               /\ process' = "exited"
       ELSE /\ process' = "killed"
            /\ UNCHANGED <<files, cleanThrew, rmCalls>>
    /\ UNCHANGED <<pc, pluginConfig, resolvedConfig, hookError, viteDevServerUrl,
                   exitHandlersBound, listeners, dirs, callVars>>

Init == LifeInit /\ call = NoCall /\ ret = NoRet

Next ==
    \/ \E i \in Instances : Wordpress(i)
    \/ \E i \in Instances : Config(i)
    \/ \E i \in Instances : ConfigResolved(i)
    \/ \E i \in Instances : ConfigureServer(i)
    \/ \E i \in Instances : Listening(i)
    \/ \E i \in Instances : Transform(i)
    \/ Exit
    \/ \E sig \in Signals : Signal(sig)

vars == <<callVars, lifeVars>>

Spec == Init /\ [][Next]_vars

----------------------------------------------------------------------------
(* Direct calls: the specifications of the pure functions *)

NormInit ==
    /\ call \in {[fn |-> "wordpress", config |-> c, cwd |-> w] :
                    c \in NormConfigs, w \in Cwds}
    /\ ret = NoRet
    /\ LifeInit

\* wordpress(config), with the resolved public directory on disk or not
CallWordpress ==
    /\ call.fn = "wordpress" /\ ret = NoRet
    /\ \E onDisk \in BOOLEAN :
        LET r == resolvePluginConfig(call.config, call.cwd)
            before == IF onDisk /\ r.ok THEN {Get(r.value).publicDirectory} ELSE {}
        IN  ret' = [fn |-> "wordpress", dirsBefore |-> before,
                    out |-> wordpress(call.config, call.cwd, before)]
    /\ UNCHANGED <<call, lifeVars>>

\* resolvePluginConfig(config), and resolvePluginConfig of its result
CallResolveTwice ==
    /\ call.fn = "wordpress" /\ ret = NoRet
    /\ LET first == resolvePluginConfig(call.config, call.cwd)
           second == IF first.ok
                     THEN resolvePluginConfig(asConfig(Get(first.value)), call.cwd)
                     ELSE first
       IN  ret' = [fn |-> "resolveTwice", first |-> first, second |-> second]
    /\ UNCHANGED <<call, lifeVars>>

NormNext == CallWordpress \/ CallResolveTwice

SpecNorm == NormInit /\ [][NormNext]_vars

EnvInit ==
    /\ call \in {[fn |-> "config", command |-> c, env |-> e, onDisk |-> d] :
                    c \in Commands, e \in Envs, d \in SUBSET {KeyPath, CertPath}}
    /\ ret = NoRet
    /\ LifeInit

\* ensureCommandShouldRunInEnvironment(command, env)
CallEnsureCommandShouldRunInEnvironment ==
    /\ call.fn = "config" /\ ret = NoRet
    /\ ret' = [fn |-> "ensureCommandShouldRunInEnvironment",
               error |-> ensureCommandShouldRunInEnvironment(call.command, call.env)]
    /\ UNCHANGED <<call, lifeVars>>

\* the config hook of the plugin
CallConfigHook ==
    /\ call.fn = "config" /\ ret = NoRet
    /\ ret' = [fn |-> "config", out |-> configHook(call.command, call.env, call.onDisk)]
    /\ UNCHANGED <<call, lifeVars>>

EnvNext == CallEnsureCommandShouldRunInEnvironment \/ CallConfigHook

SpecEnv == EnvInit /\ [][EnvNext]_vars

UrlInit ==
    /\ call \in {[fn |-> "resolveDevServerUrl", address |-> a, config |-> c] :
                    a \in Addresses, c \in ServerConfigs}
    /\ ret = NoRet
    /\ LifeInit

\* resolveDevServerUrl(address, config)
CallResolveDevServerUrl ==
    /\ call.fn = "resolveDevServerUrl" /\ ret = NoRet
    /\ ret' = [fn |-> "resolveDevServerUrl",
               parts |-> resolveDevServerUrlParts(call.address, call.config),
               url |-> resolveDevServerUrl(call.address, call.config)]
    /\ UNCHANGED <<call, lifeVars>>

UrlNext == CallResolveDevServerUrl

SpecUrl == UrlInit /\ [][UrlNext]_vars

----------------------------------------------------------------------------
(* The hot file: claims C1 and C10 *)

hotFileOf(i) == Get(pluginConfig[i]).hotFile

\* C1: while the process runs, the hot file of an instance whose listening
\* event has fired holds exactly the URL resolved for it (where no other
\* listening instance writes the same file); once the process has ended by
\* exit, SIGINT, SIGTERM or SIGHUP, the hot file of every instance whose
\* listening event has fired is gone.  Terminations in which fs.rmSync itself
\* failed are set aside.
C1_HotFileLifecycle ==
    \A i \in Instances :
        /\ (/\ process = "running"
            /\ pc[i] = "listening"
            /\ \A j \in Instances \ {i} :
                  pc[j] = "listening" => hotFileOf(j) # hotFileOf(i))
           => /\ hotFileOf(i) \in DOMAIN files
              /\ files[hotFileOf(i)] = Get(viteDevServerUrl[i])
        /\ (process = "exited" /\ ~cleanThrew /\ pc[i] = "listening")
           => hotFileOf(i) \notin DOMAIN files

\* C10: an error of deleting the hot file never leaves the cleanup handler,
\* and the deletion is tried at most once for each registered handler.
C10_CleanupErrorsSwallowed ==
    /\ ~cleanThrew
    /\ rmCalls <= Len(listeners.exit)

----------------------------------------------------------------------------
(* The transform hook: claim C11 *)

\* the code with every placeholder origin replaced by the URL
rewritten(code, url) ==
    [k \in 1..Len(code) |-> IF code[k] = Placeholder THEN url ELSE code[k]]

\* C11: every transform call in serve mode has the dev-server URL resolved
\* from the listening socket, and returns transformOnServe applied to the code
\* with every placeholder origin replaced by that URL, and to that URL; a
\* transform call in build mode returns no code.
C11_TransformRewritesPlaceholder ==
    ret.fn = "transform" =>
        LET i == call.instance
            callback == Get(pluginConfig[i]).transformOnServe
        IN  IF Get(resolvedConfig[i]).command = "serve"
            THEN /\ ret.url # None
                 /\ ret.out = Some(transformOnServe(callback,
                                       rewritten(call.code, urlText(ret.url)), ret.url))
            ELSE ret.out = None

----------------------------------------------------------------------------
(* The refresh option: claim C12 *)

\* the specs of the full-reload plugins that wordpress() returned
specsOf(plugins) == [k \in 1..Len(plugins) |-> plugins[k].__wordpress_plugin_config]

\* C12: wordpress() with refresh true returns the full-reload plugin of the one
\* spec {paths: ["resources/views/**"]}; with refresh "a/**" that of
\* {paths: ["a/**"]}; with refresh ["a/**", "b/**"] that of the one spec
\* {paths: ["a/**", "b/**"]}; with refresh false or unset no full-reload
\* plugin; and every plugin watches the paths of its own spec, a list of specs
\* giving one plugin for each of them.
C12_RefreshNormalization ==
    (ret.fn = "wordpress" /\ ret.out.ok) =>
        LET refresh == call.config.refresh
            plugins == ret.out.reloadPlugins
        IN  /\ refresh = Some(RefreshBool(TRUE))
                => specsOf(plugins) = <<[paths |-> <<"resources/views/**">>]>>
            /\ refresh = Some(RefreshString("a/**"))
                => specsOf(plugins) = <<[paths |-> <<"a/**">>]>>
            /\ refresh = Some(RefreshStrings(<<"a/**", "b/**">>))
                => specsOf(plugins) = <<[paths |-> <<"a/**", "b/**">>]>>
            /\ refresh \in {None, Some(RefreshBool(FALSE))} => plugins = <<>>
            /\ (refresh # None /\ Get(refresh).t \in {"spec", "specs"})
                => specsOf(plugins) = Get(refresh).specs
            /\ \A k \in 1..Len(plugins) :
                  /\ plugins[k].name = "vite-plugin-full-reload"
                  /\ plugins[k].paths = specsOf(plugins)[k].paths

\* wordpress() was called with a list of two strings and returned one plugin
C12_Witness ==
    /\ ret.fn = "wordpress" /\ ret.out.ok
    /\ call.config.refresh = Some(RefreshStrings(<<"a/**", "b/**">>))
    /\ Len(ret.out.reloadPlugins) = 1
    /\ ret.out.reloadPlugins[1].paths = <<"a/**", "b/**">>

----------------------------------------------------------------------------
(* The handlers of the process: claims C13 and C14 *)

\* the instances whose configureServer has run
served == {i \in Instances : pc[i] \in {"configured", "listening"}}

\* C13: whatever number of plugins is constructed and of servers configured,
\* the process has at most one exit listener and at most one handler of each
\* of SIGINT, SIGTERM and SIGHUP, all four attached together with the setting
\* of the guard flag by the first configureServer; and the flag, once set, is
\* never cleared.
C13_HandlersAttachedOnce ==
    /\ [](/\ Len(listeners.exit) <= 1
          /\ \A sig \in Signals : listeners[sig] = Len(listeners.exit)
          /\ exitHandlersBound <=> Len(listeners.exit) = 1
          /\ exitHandlersBound <=> served # {})
    /\ [][exitHandlersBound => exitHandlersBound']_vars

\* configureServer has run for two instances
C13_Witness ==
    /\ Cardinality(served) >= 2
    /\ exitHandlersBound
    /\ Len(listeners.exit) = 1

\* the instances whose server has written its hot file
started == {i \in Instances : pc[i] = "listening"}

\* C14: when several instances with hot files that differ from one another
\* have each started a dev server, then after the end of the process (no
\* delete having failed) none of the hot files they wrote exists.
C14_NoHotFileLeftBehind ==
    (/\ process = "exited" /\ ~cleanThrew
     /\ Cardinality(started) >= 2
     /\ \A i, j \in started : i # j => hotFileOf(i) # hotFileOf(j))
    => \A i \in started : hotFileOf(i) \notin DOMAIN files

----------------------------------------------------------------------------
(* The environment gate: claims C2 and C3 *)

\* the gate has nothing to refuse: a build, or the bypass set to "1"
gateAllows(command, env) ==
    command = "build" \/ env.WORDPRESS_BYPASS_ENV_CHECK = Some("1")

\* C2: for every command and environment, the gate returns when the command
\* is build or WORDPRESS_BYPASS_ENV_CHECK is the string "1"; otherwise it
\* throws exactly when CI is present, whatever its value, the empty string
\* included (serve with CI="" throws; the same with the bypass "1" returns).
C2_EnvironmentGate ==
    ret.fn = "ensureCommandShouldRunInEnvironment" =>
        /\ gateAllows(call.command, call.env) => ret.error = NoError
        /\ ~gateAllows(call.command, call.env) =>
              (ret.error # NoError <=> call.env.CI # None)
        /\ (call.command = "serve" /\ call.env.CI = Some("")
            /\ call.env.WORDPRESS_BYPASS_ENV_CHECK = None) => ret.error = GateError
        /\ (call.command = "serve" /\ call.env.CI = Some("")
            /\ call.env.WORDPRESS_BYPASS_ENV_CHECK = Some("1")) => ret.error = NoError

C2_Witness ==
    /\ ret.fn = "ensureCommandShouldRunInEnvironment"
    /\ call.command = "serve"
    /\ call.env.CI = Some("")
    /\ call.env.WORDPRESS_BYPASS_ENV_CHECK = Some("true")
    /\ ret.error = GateError

indexOf(steps, step) ==
    IF \E k \in 1..Len(steps) : steps[k] = step
    THEN CHOOSE k \in 1..Len(steps) : steps[k] = step
    ELSE 0

\* C3: in the config hook the gate runs before the server configuration of
\* the environment is computed, and when the gate has to refuse (serve, CI
\* present, no bypass) the hook throws the gate's error without having
\* computed that configuration or made its certificate-file checks.
C3_GateBeforeServerConfig ==
    ret.fn = "config" =>
        LET steps == ret.out.steps
            gate == indexOf(steps, "ensureCommandShouldRunInEnvironment")
            server == indexOf(steps, "resolveEnvironmentServerConfig")
        IN  /\ server > 0 => (gate > 0 /\ gate < server)
            /\ (~gateAllows(call.command, call.env) /\ call.env.CI # None) =>
                  /\ ret.out.error = GateError
                  /\ server = 0
                  /\ ret.out.fsOps = <<>>

----------------------------------------------------------------------------
(* The dev-server URL: claims C4 and C5 *)

LoopbackV6 == [address |-> "::1", family |-> "IPv6", port |-> 5173]

\* C4 as stated: the port of the URL is the port of the HMR options when one
\* is configured; {host "::1", family "IPv6", port 5173} with the HMR options
\* {protocol "wss", host "example.test", port 443} gives
\* "https://example.test:443".
C4_PortIsHmrPort ==
    ret.fn = "resolveDevServerUrl" =>
        LET hmr == call.config.server.hmr IN
        /\ (hmr.kind = "object" /\ hmr.port # None) => ret.parts.port = Get(hmr.port)
        /\ (call.address = LoopbackV6
            /\ hmr = HmrObject(Some("wss"), Some("example.test"), Some(443), None))
           => ret.url = "https://example.test:443"

\* C4 as amended: the port of the URL is hmr.clientPort when the HMR options
\* are an object that sets it, else the port of the listening socket; hmr.port
\* is not read.  {host "::1", family "IPv6", port 5173} with {protocol "wss",
\* host "example.test", clientPort 443} gives "https://example.test:443", and
\* with {protocol "wss", host "example.test", port 443} it gives
\* "https://example.test:5173".
C4_PortIsHmrClientPort ==
    ret.fn = "resolveDevServerUrl" =>
        LET hmr == call.config.server.hmr IN
        /\ ret.parts.port = IF hmr.kind = "object" /\ hmr.clientPort # None
                            THEN Get(hmr.clientPort)
                            ELSE call.address.port
        /\ (call.address = LoopbackV6
            /\ hmr = HmrObject(Some("wss"), Some("example.test"), None, Some(443)))
           => ret.url = "https://example.test:443"
        /\ (call.address = LoopbackV6
            /\ hmr = HmrObject(Some("wss"), Some("example.test"), Some(443), None))
           => ret.url = "https://example.test:5173"

C4_Witness ==
    /\ ret.fn = "resolveDevServerUrl"
    /\ call.address = LoopbackV6
    /\ call.config.server.hmr =
           HmrObject(Some("wss"), Some("example.test"), Some(443), None)
    /\ ret.url = "https://example.test:5173"

tlsEnabled(config) == config.server.https \in {"true", "options"}

\* the host of the listening address, in brackets for the IPv6 family and
\* for its numeric encoding
listeningHost(address) ==
    IF address.family \in {"IPv6", FamilyNumber6}
    THEN "[" \o address.address \o "]"
    ELSE address.address

\* the host C5 states: the HMR host, else the bind host when it is a string,
\* else the host of the listening address
expectedHost(address, config) ==
    LET hmr == config.server.hmr IN
    IF hmr.kind = "object" /\ hmr.host # None THEN Get(hmr.host)
    ELSE IF config.server.host.kind = "string" THEN config.server.host.value
    ELSE listeningHost(address)

\* C5 as stated: the scheme is https when the HMR protocol is "wss", http
\* when it is any other value, else https when TLS is on, else http; the host
\* is the HMR host, else the bind-host string, else the listening host, in
\* brackets for "IPv6" and for the numeric 6; each field on its own.
C5_SchemeAndHost ==
    ret.fn = "resolveDevServerUrl" =>
        LET hmr == call.config.server.hmr IN
        /\ ret.parts.protocol =
              IF hmr.kind = "object" /\ hmr.protocol # None
              THEN (IF hmr.protocol = Some("wss") THEN "https" ELSE "http")
              ELSE IF tlsEnabled(call.config) THEN "https" ELSE "http"
        /\ ret.parts.host = expectedHost(call.address, call.config)

\* C5 as amended: the scheme is https when the HMR protocol is "wss", http
\* when it is any other non-empty value, else (no HMR protocol, or the empty
\* string) https when TLS is on, else http; the host is the HMR host, else the
\* bind-host string, else the listening host, in brackets for "IPv6" and for
\* the numeric 6; each field on its own.  {host "::1", family "IPv6", port
\* 5173} without overrides and with TLS off gives "http://[::1]:5173".
C5_SchemeAndHostNonEmptyProtocol ==
    ret.fn = "resolveDevServerUrl" =>
        LET hmr == call.config.server.hmr IN
        /\ ret.parts.protocol =
              IF hmr.kind = "object" /\ hmr.protocol \notin {None, Some("")}
              THEN (IF hmr.protocol = Some("wss") THEN "https" ELSE "http")
              ELSE IF tlsEnabled(call.config) THEN "https" ELSE "http"
        /\ ret.parts.host = expectedHost(call.address, call.config)
        /\ (call.address = LoopbackV6 /\ hmr.kind = "undefined"
            /\ call.config.server.host.kind = "undefined" /\ ~tlsEnabled(call.config))
           => ret.url = "http://[::1]:5173"

C5_Witness ==
    /\ ret.fn = "resolveDevServerUrl"
    /\ call.address = [address |-> "::1", family |-> FamilyNumber6, port |-> 5173]
    /\ call.config.server.hmr = HmrObject(None, None, None, None)
    /\ call.config.server.host.kind = "boolean"
    /\ call.config.server.https = "options"
    /\ ret.url = "https://[::1]:5173"

----------------------------------------------------------------------------
(* The configuration normalizer: claims C6 to C9 *)

onlySlashes(s) == \A k \in 1..Len(s) : s[k] = Slash

\* the configuration values C6 lists: not an object with properties, no
\* namespace, no input, or a supplied publicDirectory or buildDirectory with
\* nothing but slashes in it
mustFail(config) ==
    \/ config.kind # "object"
    \/ config.namespace = None
    \/ config.input = None
    \/ config.publicDirectory # None /\ onlySlashes(Get(config.publicDirectory))
    \/ config.buildDirectory # None /\ onlySlashes(Get(config.buildDirectory))

suppliedWithoutWhitespace(o) == o = None \/ ~hasWhitespace(Get(o))

C9_FooWithoutSlashes ==
    (ret.fn = "wordpress" /\ call.config.publicDirectory = Some(<<Slash, "foo", Slash>>)
     /\ ret.out.ok)
    => Get(ret.out.pluginConfig).publicDirectory = <<"foo">>

\* C9 as amended: a supplied publicDirectory of "/foo/" resolves to "foo/":
\* the leading slash is removed and the trailing slash is kept.
C9_FooKeepsTrailingSlash ==
    (ret.fn = "wordpress" /\ call.config.publicDirectory = Some(<<Slash, "foo", Slash>>))
    => /\ ret.out.ok => Get(ret.out.pluginConfig).publicDirectory = <<"foo", Slash>>
       /\ (/\ call.config.namespace # None
           /\ call.config.input # None
           /\ call.config.buildDirectory = None) => ret.out.ok

C9_Witness ==
    /\ ret.fn = "wordpress"
    /\ call.config.publicDirectory = Some(<<Slash, "foo", Slash>>)
    /\ ret.out.ok
    /\ Get(ret.out.pluginConfig).publicDirectory = <<"foo", Slash>>

====
